---- MODULE Spec2Model ----
(***************************************************************************)
(* Model of the os5 kernel core: the stride scheduler (task/manager.rs),   *)
(* the processor loop (task/processor.rs), the process syscalls            *)
(* (syscall/process.rs) and the page table (mm/page_table.rs).             *)
(*                                                                         *)
(* One CPU.  pc = "idle" is the idle control flow inside run_tasks, about  *)
(* to call fetch_task; pc = "user" is a task running between two traps.    *)
(* A syscall handler runs to completion (no kernel preemption), so each    *)
(* handler is one action.                                                  *)
(***************************************************************************)
EXTENDS Integers, Sequences, FiniteSets, TLC

VARIABLES
    ready_queue,    \* TaskManager.ready_queue: Vec<Arc<TCB>>, as a sequence of pids
    current,        \* Processor.current: Option<Arc<TCB>>
    pc,             \* "idle" | "user" | "panic" | "shutdown"
    tasks,          \* pids whose TaskControlBlock is allocated
    task_status,    \* inner.task_status
    task_stride,    \* inner.task_stride (Pass.0)
    task_priority,  \* inner.task_priority
    start_time,     \* inner.start_time (0 = not stamped yet)
    children,       \* inner.children: Vec<Arc<TCB>>
    parent,         \* inner.parent: Option<Weak<TCB>>
    exit_code,      \* inner.exit_code
    x10,            \* trap_cx.x[10] of each task
    user_mem,       \* the i32 cells of each task's address space
    memory_set,     \* inner.memory_set: the map areas and the mapped pages
    selected,       \* number of times fetch_task has returned each pid
    nsetprio,       \* number of successful set_priority calls
    last,           \* the most recent kernel operation and its return value
    root_ppn,       \* PageTable.root_ppn of the running task's page table
    frames,         \* PageTable.frames: Vec<FrameTracker>, as frame numbers
    pte_array,      \* get_pte_array() of every page-table frame
    bytes_array,    \* get_bytes_array(): the bytes written to data frames
    ntime,          \* number of sys_get_time calls that have returned
    cell_log        \* the exclusive_access, drop and __switch calls of the
                    \* most recent kernel path, in order

\* the scheduler's and the tasks' state
task_vars == <<ready_queue, current, tasks, task_status, task_stride,
               task_priority, start_time, children, parent, exit_code, x10,
               user_mem, memory_set, selected, nsetprio>>

\* the page table of the running task and the physical memory behind it
pt_vars == <<root_ppn, frames, pte_array, bytes_array, ntime>>

vars == <<ready_queue, current, pc, tasks, task_status, task_stride,
          task_priority, start_time, children, parent, exit_code, x10,
          user_mem, memory_set, selected, nsetprio, last, pt_vars,
          cell_log>>

(***************************************************************************)
(* Program constants                                                       *)
(***************************************************************************)
BIG_STRIDE == 1048576

INITPROC == 0

(***************************************************************************)
(* Bounds of the model                                                     *)
(***************************************************************************)
MaxPid == 2

MaxFetch == 14

MaxRuns == 3

MaxSetPrio == 1

Pids == 0..MaxPid
None == -1
UserPtrs == {0, 4}
Priorities == {2, 4, 8}
HugePriority == 2 * BIG_STRIDE
PrioArgs == {1, 2}
StridePrioArgs == Priorities \cup {HugePriority}
ExitCodes == {0, 42}
PidArgs == {-1} \cup Pids

(***************************************************************************)
(* Pass (task/manager.rs)                                                  *)
(***************************************************************************)
PassNew == 0

abs_diff(a, b) == IF a >= b THEN a - b ELSE b - a

\* partial_cmp with a strict order test
partial_cmp_strict(a, b) ==
    LET overflow == abs_diff(a, b) > BIG_STRIDE \div 2
        order    == a < b
    IN  IF order # overflow THEN "Less" ELSE "Greater"

partial_cmp(a, b) ==
    LET overflow == abs_diff(a, b) > BIG_STRIDE \div 2
        order    == a <= b
    IN  IF order # overflow THEN "Less" ELSE "Greater"

\* `a < b` on Pass: the provided PartialOrd::lt, true iff partial_cmp is Less
lt(a, b) == partial_cmp(a, b) = "Less"

eq(a, b) == FALSE

\* step_by_prio without the 0 => 1 arm
step_by_prio_noclamp(pass, priority) == pass + BIG_STRIDE \div priority

\* step_by_prio with a stride of BIG_STRIDE, not divided by the priority
step_by_prio_whole(pass, priority) == pass + BIG_STRIDE

\* step_by_prio with a stride that ignores the priority
step_by_prio_const(pass, priority) == pass + BIG_STRIDE \div 2

step_by_prio(pass, priority) ==
    LET q      == BIG_STRIDE \div priority
        stride == IF q = 0 THEN 1 ELSE q
    IN  pass + stride

(***************************************************************************)
(* TaskManager (task/manager.rs)                                           *)
(***************************************************************************)
add(q, task) == Append(q, task)

RECURSIVE fetch_scan(_, _, _, _, _)
fetch_scan(q, strides, i, min_i, min_stride) ==
    IF i > Len(q) THEN min_i
    ELSE LET stride == strides[q[i]]
         IN  IF lt(stride, min_stride)
             THEN fetch_scan(q, strides, i + 1, i, stride)
             ELSE fetch_scan(q, strides, i + 1, min_i, min_stride)

\* a fetch that clones the chosen Arc and leaves it in the queue
swap_remove_keep(q, i) == q

swap_remove(q, i) ==
    IF i = Len(q) THEN SubSeq(q, 1, Len(q) - 1)
    ELSE [SubSeq(q, 1, Len(q) - 1) EXCEPT ![i] = q[Len(q)]]

\* fetch as a FIFO queue (pop_front)
fetch_index_fifo(q, strides) == IF q = <<>> THEN 0 ELSE 1

\* index (1-based) of the task fetch removes, 0 when the queue is empty
fetch_index(q, strides) ==
    IF q = <<>> THEN 0 ELSE fetch_scan(q, strides, 1, 1, strides[q[1]])

\* the Option<Arc<TCB>> fetch returns
fetch(q, strides) ==
    IF fetch_index(q, strides) = 0 THEN None ELSE q[fetch_index(q, strides)]

(***************************************************************************)
(* Address arithmetic and MemorySet (mm)                                   *)
(*                                                                         *)
(* The address space is scaled down to the pages 0..MaxVpn: the trampoline *)
(* is the top page, the trap context the page below it, and the ELF image  *)
(* with the user stack is an area at the bottom.                           *)
(***************************************************************************)
PAGE_SIZE == 4096

MaxVpn == 4

Vpns == 0..MaxVpn
TRAMPOLINE == MaxVpn
TRAP_CONTEXT == MaxVpn - 1

aligned(va) == va % PAGE_SIZE = 0

floor(va) == va \div PAGE_SIZE

ceil(va) == (va + PAGE_SIZE - 1) \div PAGE_SIZE

\* the pages of the half-open virtual address range [start_va, end_va)
VPNRange(start_va, end_va) == {v \in Vpns : floor(start_va) <= v /\ v < ceil(end_va)}

AreaVpns(area) == {v \in Vpns : area.lo <= v /\ v < area.hi}

\* MemorySet::from_elf: the address space of a new task
from_elf ==
    [areas |-> {[lo |-> 0, hi |-> 1, perm |-> 7],
                [lo |-> TRAP_CONTEXT, hi |-> TRAP_CONTEXT + 1, perm |-> 3]},
     pt    |-> {0, TRAP_CONTEXT, TRAMPOLINE}]

\* MemorySet::mmap: all or nothing
mmap(ms, start_va, end_va, port) ==
    LET range == VPNRange(start_va, end_va)
    IN  IF range \cap ms.pt # {}
        THEN {[ret |-> -1, ms |-> ms]}
        ELSE {[ret |-> 0,
               ms  |-> [areas |-> ms.areas \cup
                           {[lo |-> floor(start_va), hi |-> ceil(end_va),
                             perm |-> port % 8]},
                        pt    |-> ms.pt \cup range]]}

\* the areas that remain when the pages of range are cut out of area
CutArea(area, range) ==
    LET left  == {v \in AreaVpns(area) : \A r \in range : v < r}
        right == {v \in AreaVpns(area) : \A r \in range : v > r}
    IN  (IF left = {} \/ range = {} THEN {}
         ELSE {[lo |-> area.lo, hi |-> area.lo + Cardinality(left),
                perm |-> area.perm]})
        \cup
        (IF right = {} \/ range = {} THEN {}
         ELSE {[lo |-> area.hi - Cardinality(right), hi |-> area.hi,
                perm |-> area.perm]})
        \cup
        (IF range = {} THEN {area} ELSE {})

\* MemorySet::munmap: -1 when a page of the range is not mapped; 0, removing
\* the covered areas, when the range is the union of some areas; a mapped
\* range that cuts through an area or covers the trampoline is either
\* refused or unmapped page by page
munmap(ms, start_va, end_va) ==
    LET range   == VPNRange(start_va, end_va)
        covered == {a \in ms.areas : AreaVpns(a) \subseteq range}
        exact   == range = UNION {AreaVpns(a) : a \in covered}
        removed == [areas |-> UNION {CutArea(a, range \cap AreaVpns(a)) :
                                        a \in ms.areas},
                    pt    |-> ms.pt \ range]
    IN  IF ~(range \subseteq ms.pt)
        THEN {[ret |-> -1, ms |-> ms]}
        ELSE IF exact
        THEN {[ret |-> 0, ms |-> removed]}
        ELSE {[ret |-> -1, ms |-> ms], [ret |-> 0, ms |-> removed]}

(***************************************************************************)
(* Page table (mm/page_table.rs)                                           *)
(*                                                                         *)
(* A page-table frame holds the entries 0..MaxIdx (0..511 in the kernel),  *)
(* a VPN is three such indices.  A PTE is the word ppn << 10 | flags.      *)
(***************************************************************************)
MaxIdx == 1

MaxTime == 1

Idx == 0..MaxIdx
NEntries == MaxIdx + 1
TopVpn == NEntries * NEntries * NEntries - 1

\* the virtual pages the model maps, unmaps and translates: 0 and 1 share
\* every interior node, TopVpn shares only the root with them
VpnArgs == {0, 1, TopVpn}

\* the frames the frame allocator hands out to the page table; frame 0 is
\* not part of the allocator's range
PtFrames == 1..(1 + 2 * Cardinality(VpnArgs))

\* the data frames that callers of map pass in
PpnArgs == {20, 22}

PTE_V == 1
PTE_R == 2
PTE_W == 4
PTE_X == 8
PTE_U == 16

FlagArgs == {PTE_R + PTE_W + PTE_U, PTE_V + PTE_R + PTE_X + PTE_U}

\* map that stores the flags as they are given
or_V_skip(flags) == flags

\* flags | PTEFlags::V
or_V(flags) == IF flags % 2 = 1 THEN flags ELSE flags + PTE_V

\* PageTableEntry::new: ppn << 10 | flags
pte_new(ppn, flags) == ppn * 1024 + flags

\* PageTableEntry::empty
pte_empty == 0

\* PageTableEntry::ppn: bits >> 10 & (2^44 - 1); the mask keeps every bit
\* of the frame numbers used here
pte_ppn(bits) == bits \div 1024

\* PageTableEntry::flags: bits as u8
pte_flags(bits) == bits % 256

\* PageTableEntry::is_valid
is_valid(bits) == pte_flags(bits) % 2 = PTE_V

\* VirtPageNum::indexes: [L2, L1, L0]
indexes(vpn) ==
    << (vpn \div (NEntries * NEntries)) % NEntries,
       (vpn \div NEntries) % NEntries,
       vpn % NEntries >>

\* frame_alloc: the next frame of the allocator's range, zero-filled
frame_alloc(owned) ==
    CHOOSE f \in PtFrames :
        /\ \A i \in 1..Len(owned) : owned[i] # f
        /\ \A g \in PtFrames :
              (\A i \in 1..Len(owned) : owned[i] # g) => f <= g

\* find_pte_create without self.frames.push(frame)
RECURSIVE find_pte_create_nopush(_, _, _, _, _)
find_pte_create_nopush(mem, owned, ppn, idxs, i) ==
    LET idx == idxs[i + 1]
        pte == mem[ppn][idx]
    IN  IF i = 2
        THEN [mem |-> mem, frames |-> owned, loc |-> <<ppn, idx>>]
        ELSE IF ~is_valid(pte)
        THEN LET frame == frame_alloc(owned)
                 mem1  == [mem EXCEPT ![ppn][idx] = pte_new(frame, PTE_V)]
             IN  find_pte_create_nopush(mem1, owned,
                                        pte_ppn(mem1[ppn][idx]), idxs, i + 1)
        ELSE find_pte_create_nopush(mem, owned, pte_ppn(pte), idxs, i + 1)

\* PageTable::find_pte_create from level i of the walk: the page-table
\* memory and the owned frames it leaves, and the place <<frame, index>> of
\* the leaf PTE
RECURSIVE find_pte_create(_, _, _, _, _)
find_pte_create(mem, owned, ppn, idxs, i) ==
    LET idx == idxs[i + 1]
        pte == mem[ppn][idx]
    IN  IF i = 2
        THEN [mem |-> mem, frames |-> owned, loc |-> <<ppn, idx>>]
        ELSE IF ~is_valid(pte)
        THEN LET frame == frame_alloc(owned)
                 mem1  == [mem EXCEPT ![ppn][idx] = pte_new(frame, PTE_V)]
             IN  find_pte_create(mem1, Append(owned, frame),
                                 pte_ppn(mem1[ppn][idx]), idxs, i + 1)
        ELSE find_pte_create(mem, owned, pte_ppn(pte), idxs, i + 1)

\* PageTable::find_pte from level i of the walk: the place of the leaf PTE,
\* the empty tuple (Option::None) when an interior PTE is not valid
RECURSIVE find_pte(_, _, _, _)
find_pte(mem, ppn, idxs, i) ==
    LET idx == idxs[i + 1]
        pte == mem[ppn][idx]
    IN  IF i = 2 THEN <<ppn, idx>>
        ELSE IF ~is_valid(pte) THEN <<>>
        ELSE find_pte(mem, pte_ppn(pte), idxs, i + 1)

\* PageTable::translate: a copy of the PTE that find_pte refers to
translate(mem, root, vpn) ==
    LET loc == find_pte(mem, root, indexes(vpn), 0)
    IN  IF loc = <<>> THEN None ELSE mem[loc[1]][loc[2]]

\* PageTable::token: 8 << 60 | root_ppn, kept as its two fields
token(root) == [mode |-> 8, ppn |-> root]

\* PageTable::from_token: the root is the low 44 bits of satp
from_token(satp) == satp.ppn

\* VirtAddr::page_offset
page_offset(va) == va % PAGE_SIZE

\* end_va that is not limited by the end of the buffer
Min_first(a, b) == a

Min(a, b) == IF a < b THEN a ELSE b

\* the loop of translated_byte_buffer: v is the list of slices so far, a
\* slice is the bytes lo..hi-1 of frame ppn; the unwrap of a None panics
RECURSIVE translated_byte_buffer_loop(_, _, _, _, _)
translated_byte_buffer_loop(mem, root, start, end, v) ==
    IF ~(start < end)
    THEN [panic |-> FALSE, v |-> v]
    ELSE LET start_va == start
             vpn      == floor(start_va)
             pte      == translate(mem, root, vpn)
         IN  IF pte = None
             THEN [panic |-> TRUE, v |-> <<>>]
             ELSE LET ppn    == pte_ppn(pte)
                      end_va == Min((vpn + 1) * PAGE_SIZE, end)
                      slice  ==
                          IF page_offset(end_va) = 0
                          THEN [ppn |-> ppn, lo |-> page_offset(start_va),
                                hi |-> PAGE_SIZE]
                          ELSE [ppn |-> ppn, lo |-> page_offset(start_va),
                                hi |-> page_offset(end_va)]
                  IN  translated_byte_buffer_loop(mem, root, end_va, end,
                                                  Append(v, slice))

translated_byte_buffer(mem, satp, ptr, len) ==
    translated_byte_buffer_loop(mem, from_token(satp), ptr, ptr + len, <<>>)

\* size_of::<TimeVal>(): two usize
SizeOfTimeVal == 16

\* translated_large_type::<TimeVal>
translated_large_type(mem, satp, ptr) ==
    translated_byte_buffer(mem, satp, ptr, SizeOfTimeVal)

\* x >> (8 * k)
RECURSIVE shr_bytes(_, _)
shr_bytes(x, k) == IF k = 0 THEN x ELSE shr_bytes(x \div 256, k - 1)

\* the bytes of a little-endian usize
usize_bytes(x) == [k \in 1..8 |-> shr_bytes(x, k - 1) % 256]

\* from_raw_parts(value as *const u8, size_of::<TimeVal>()) of
\* TimeVal { sec: us / 1_000_000, usec: us % 1_000_000 }
TimeVal_bytes(us) ==
    usize_bytes(us \div 1000000) \o usize_bytes(us % 1000000)

\* the bytes of the physical frames after buffer.copy_from_slice(src)
copy_from_slice(bytes, buffer, src) ==
    LET cells == {<<buffer.ppn, o>> : o \in buffer.lo..(buffer.hi - 1)}
    IN  [c \in DOMAIN bytes \cup cells |->
            IF c \in cells THEN src[c[2] - buffer.lo + 1] ELSE bytes[c]]

\* copy_type_into_bufs that restarts at the first byte of the value for
\* every buffer
RECURSIVE copy_type_into_bufs_restart(_, _, _, _)
copy_type_into_bufs_restart(bytes, value, buffers, offset) ==
    IF buffers = <<>> THEN bytes
    ELSE LET buffer  == Head(buffers)
             dst_len == buffer.hi - buffer.lo
         IN  copy_type_into_bufs_restart(
                 copy_from_slice(bytes, buffer, SubSeq(value, 1, dst_len)),
                 value, Tail(buffers), offset + dst_len)

\* copy_type_into_bufs: the loop over the buffers, from offset on
RECURSIVE copy_type_into_bufs(_, _, _, _)
copy_type_into_bufs(bytes, value, buffers, offset) ==
    IF buffers = <<>> THEN bytes
    ELSE LET buffer  == Head(buffers)
             dst_len == buffer.hi - buffer.lo
         IN  copy_type_into_bufs(
                 copy_from_slice(bytes, buffer,
                     SubSeq(value, offset + 1, offset + dst_len)),
                 value, Tail(buffers), offset + dst_len)

(***************************************************************************)
(* Processor (task/processor.rs)                                           *)
(***************************************************************************)
\* take_current that clones the Arc instead of taking it
take_current_clone(cur) == cur

\* Processor::take_current: the value left in the slot by Option::take
take_current(cur) == None

\* Processor::current: a clone of the Arc in the slot, the slot is kept
current_task(cur) == cur

Count(q, t) == Cardinality({i \in 1..Len(q) : q[i] = t})

\* Arc::strong_count of task t's TCB: the ready queue, the processor slot,
\* the children lists and (for initproc) the INITPROC static
strong_count(t, queue, cur, kids) ==
    Count(queue, t)
    + (IF cur = t THEN 1 ELSE 0)
    + Cardinality({<<p, i>> \in Pids \X (1..(MaxPid + 1)) :
                      i <= Len(kids[p]) /\ kids[p][i] = t})
    + (IF t = INITPROC THEN 1 ELSE 0)

RemoveAt(q, i) == SubSeq(q, 1, i - 1) \o SubSeq(q, i + 1, Len(q))

RECURSIVE SumOver(_, _)
SumOver(f, S) ==
    IF S = {} THEN 0
    ELSE LET x == CHOOSE y \in S : TRUE IN f[x] + SumOver(f, S \ {x})

nfetch == SumOver(selected, Pids)

\* the trap handler stores a handler's return value in the caller's x[10]
syscall_return(regs, task, r) == [regs EXCEPT ![task] = r]

(***************************************************************************)
(* UPSafeCell: the exclusive cells a kernel path borrows and drops         *)
(*                                                                         *)
(* A path is the sequence of its exclusive_access calls, of the ends of    *)
(* the guards' lifetimes and of its __switch call.  A temporary guard      *)
(* lives to the end of its statement.                                      *)
(***************************************************************************)
PROCESSOR == <<"PROCESSOR">>

TASK_MANAGER == <<"TASK_MANAGER">>

\* the UPSafeCell<TaskControlBlockInner> of task t
inner(t) == <<"inner", t>>

exclusive_access(cell) == <<[ev |-> "borrow", cell |-> cell]>>

drop(cell) == <<[ev |-> "drop", cell |-> cell]>>

switch == <<[ev |-> "switch", cell |-> <<>>]>>

\* cell.exclusive_access() as a temporary of one statement
temporary(cell) == exclusive_access(cell) \o drop(cell)

\* TaskManager::fetch: the stride of ready_queue[0], then of every entry
RECURSIVE fetch_loop_cells(_, _)
fetch_loop_cells(q, i) ==
    IF i > Len(q) THEN <<>>
    ELSE temporary(inner(q[i])) \o fetch_loop_cells(q, i + 1)

fetch_cells(q) ==
    IF q = <<>> THEN <<>>
    ELSE temporary(inner(q[1])) \o fetch_loop_cells(q, 1)

\* fetch_task: the manager's guard is a temporary of the let statement, the
\* task's guard lives in the block that follows
fetch_task_cells(q, strides) ==
    exclusive_access(TASK_MANAGER) \o fetch_cells(q) \o drop(TASK_MANAGER)
    \o (IF fetch(q, strides) = None THEN <<>>
        ELSE temporary(inner(fetch(q, strides))))

add_task_cells == temporary(TASK_MANAGER)

take_current_task_cells == temporary(PROCESSOR)

current_task_cells == temporary(PROCESSOR)

current_user_token_cells(task) ==
    current_task_cells \o temporary(inner(task))

\* run_tasks with the processor's guard left to the end of the loop body
run_tasks_cells_scope(q, strides) ==
    exclusive_access(PROCESSOR) \o fetch_task_cells(q, strides)
    \o (IF fetch(q, strides) = None THEN drop(PROCESSOR)
        ELSE exclusive_access(inner(fetch(q, strides)))
             \o drop(inner(fetch(q, strides)))
             \o switch \o drop(PROCESSOR))

\* one iteration of run_tasks
run_tasks_cells(q, strides) ==
    exclusive_access(PROCESSOR) \o fetch_task_cells(q, strides)
    \o (IF fetch(q, strides) = None THEN drop(PROCESSOR)
        ELSE exclusive_access(inner(fetch(q, strides)))
             \o drop(inner(fetch(q, strides)))
             \o drop(PROCESSOR) \o switch)

schedule_cells == exclusive_access(PROCESSOR) \o drop(PROCESSOR) \o switch

\* suspend_current_and_run_next: the task's guard is dropped before
\* add_task and schedule
suspend_current_and_run_next_cells(task) ==
    take_current_task_cells
    \o exclusive_access(inner(task)) \o drop(inner(task))
    \o add_task_cells \o schedule_cells

RECURSIVE each_child_cells(_, _)
each_child_cells(kids, i) ==
    IF i > Len(kids) THEN <<>>
    ELSE temporary(inner(kids[i])) \o each_child_cells(kids, i + 1)

\* exit_current_and_run_next: the children are handed to initproc under
\* the guards of the task and of initproc, all dropped before schedule
exit_current_and_run_next_cells(task, kids) ==
    take_current_task_cells
    \o (IF task = INITPROC THEN <<>>
        ELSE exclusive_access(inner(task))
             \o exclusive_access(inner(INITPROC))
             \o each_child_cells(kids, 1)
             \o drop(inner(INITPROC))
             \o drop(inner(task))
             \o schedule_cells)

\* task.fork(): the parent's guard is held while the child is built
fork_cells(task, new_pid) ==
    exclusive_access(inner(task)) \o temporary(inner(new_pid))
    \o drop(inner(task))

sys_fork_cells(task, new_pid) ==
    current_task_cells \o fork_cells(task, new_pid)
    \o temporary(inner(new_pid)) \o add_task_cells

\* sys_waitpid: the caller's guard is held to the end; find() borrows each
\* child up to the one it returns
sys_waitpid_cells(task, kids, matched, idx) ==
    current_task_cells \o exclusive_access(inner(task))
    \o (IF ~matched THEN <<>>
        ELSE IF idx = 0 THEN each_child_cells(kids, 1)
        ELSE each_child_cells(SubSeq(kids, 1, idx), 1)
             \o temporary(inner(kids[idx])))
    \o drop(inner(task))

sys_set_priority_cells(task, prio) ==
    current_task_cells
    \o (IF prio < 2 THEN <<>> ELSE temporary(inner(task)))

\* mmap and munmap of the current task's memory set
memory_set_cells(task) == current_task_cells \o temporary(inner(task))

\* task.exec(data) and task.spawn(data)
exec_cells(task) == temporary(inner(task))

spawn_cells(task, new_pid) == temporary(inner(task))

sys_exec_cells(task, data) ==
    current_user_token_cells(task)
    \o (IF data = None THEN <<>>
        ELSE current_task_cells \o exec_cells(task))

sys_spawn_cells(task, data, new_pid) ==
    current_user_token_cells(task)
    \o (IF data = None THEN <<>>
        ELSE current_task_cells \o spawn_cells(task, new_pid)
             \o temporary(inner(new_pid)) \o add_task_cells)

(***************************************************************************)
(* run_tasks: one iteration of the idle loop                               *)
(***************************************************************************)
run_tasks(max_fetch) ==
    /\ pc = "idle"
    /\ nfetch < max_fetch
    /\ IF fetch(ready_queue, task_stride) = None
       THEN UNCHANGED vars
       ELSE LET i    == fetch_index(ready_queue, task_stride)
                task == fetch(ready_queue, task_stride)
            IN  /\ ready_queue' = swap_remove(ready_queue, i)
                /\ task_stride' = [task_stride EXCEPT
                       ![task] = step_by_prio(@, task_priority[task])]
                /\ start_time' = [start_time EXCEPT
                       ![task] = IF @ = 0 THEN 1 ELSE @]
                /\ task_status' = [task_status EXCEPT ![task] = "Running"]
                /\ current' = task
                /\ pc' = "user"
                /\ selected' = [selected EXCEPT ![task] = @ + 1]
                /\ last' = [op |-> "fetch_task", args |-> <<>>, ret |-> task]
                /\ cell_log' = run_tasks_cells(ready_queue, task_stride)
                /\ UNCHANGED <<tasks, task_priority, children, parent,
                               exit_code, x10, user_mem, memory_set,
                               nsetprio, pt_vars>>

(***************************************************************************)
(* suspend_current_and_run_next and sys_yield                              *)
(***************************************************************************)
suspend_current_and_run_next ==
    LET task == current
    IN  /\ current' = take_current(current)
        /\ task_status' = [task_status EXCEPT ![task] = "Ready"]
        /\ ready_queue' = add(ready_queue, task)
        \* schedule(): back to the idle control flow
        /\ pc' = "idle"

sys_yield ==
    /\ pc = "user"
    /\ suspend_current_and_run_next
    /\ x10' = syscall_return(x10, current, 0)
    /\ last' = [op |-> "sys_yield", args |-> <<>>, ret |-> 0]
    /\ cell_log' = suspend_current_and_run_next_cells(current)
    /\ UNCHANGED <<tasks, task_stride, task_priority, start_time, children,
                   parent, exit_code, user_mem, memory_set, selected,
                   nsetprio, pt_vars>>

(***************************************************************************)
(* exit_current_and_run_next and sys_exit                                  *)
(***************************************************************************)
exit_current_and_run_next(code) ==
    LET task == current
    IN  IF task = INITPROC
        THEN \* the init task exits: the kernel shuts down
             /\ pc' = "shutdown"
             /\ UNCHANGED <<ready_queue, current, task_status, exit_code,
                            children, parent, x10, user_mem, memory_set>>
        ELSE /\ current' = take_current(current)
             /\ task_status' = [task_status EXCEPT ![task] = "Zombie"]
             /\ exit_code' = [exit_code EXCEPT ![task] = code]
             \* the children are handed over to initproc
             /\ children' = [children EXCEPT
                    ![INITPROC] = @ \o children[task],
                    ![task] = <<>>]
             /\ parent' = [p \in Pids |->
                    IF \E i \in 1..Len(children[task]) : children[task][i] = p
                    THEN INITPROC ELSE parent[p]]
             \* the map areas are cleared, the frames released: the user
             \* data and the trap context page are gone
             /\ x10' = [x10 EXCEPT ![task] = 0]
             /\ user_mem' = [user_mem EXCEPT ![task] = [a \in UserPtrs |-> 0]]
             /\ memory_set' = [memory_set EXCEPT ![task].areas = {}]
             /\ ready_queue' = ready_queue
             /\ pc' = "idle"

sys_exit(code) ==
    /\ pc = "user"
    /\ exit_current_and_run_next(code)
    /\ last' = [op |-> "sys_exit", args |-> <<>>, ret |-> code]
    /\ cell_log' = exit_current_and_run_next_cells(current, children[current])
    /\ UNCHANGED <<tasks, task_stride, task_priority, start_time,
                   selected, nsetprio, pt_vars>>

(***************************************************************************)
(* TaskControlBlock::fork and sys_fork                                     *)
(***************************************************************************)
\* the priority a new TCB starts with
DefaultPriority == 16

\* task.fork(): a new TCB with pid new_pid, a copy of the address space and
\* of the trap context of task, pushed into task's children
fork(task, new_pid) ==
    /\ tasks' = tasks \cup {new_pid}
    /\ task_status' = [task_status EXCEPT ![new_pid] = "Ready"]
    /\ task_stride' = [task_stride EXCEPT ![new_pid] = PassNew]
    /\ task_priority' = [task_priority EXCEPT ![new_pid] = DefaultPriority]
    /\ start_time' = [start_time EXCEPT ![new_pid] = 0]
    /\ parent' = [parent EXCEPT ![new_pid] = task]
    /\ children' = [children EXCEPT
           ![task] = Append(@, new_pid), ![new_pid] = <<>>]
    /\ exit_code' = [exit_code EXCEPT ![new_pid] = 0]
    /\ user_mem' = [user_mem EXCEPT ![new_pid] = user_mem[task]]
    /\ memory_set' = [memory_set EXCEPT ![new_pid] = memory_set[task]]

\* the registers after fork(): the child's trap context is the parent's
fork_trap_cx(regs, task, new_pid) == [regs EXCEPT ![new_pid] = regs[task]]

\* sys_fork without the store to trap_cx.x[10]
set_child_a0_skip(regs, new_pid) == regs

\* trap_cx.x[10] = 0 in the new task's trap context
set_child_a0(regs, new_pid) == [regs EXCEPT ![new_pid] = 0]

sys_fork ==
    /\ pc = "user"
    /\ LET task == current_task(current)
       IN  \E new_pid \in Pids \ tasks :
             /\ fork(task, new_pid)
             /\ x10' = syscall_return(
                    set_child_a0(fork_trap_cx(x10, task, new_pid), new_pid),
                    task, new_pid)
             /\ ready_queue' = add(ready_queue, new_pid)
             /\ last' = [op |-> "sys_fork", args |-> <<>>, ret |-> new_pid]
             /\ cell_log' = sys_fork_cells(task, new_pid)
    /\ UNCHANGED <<current, pc, selected, nsetprio, pt_vars>>

(***************************************************************************)
(* sys_waitpid                                                             *)
(***************************************************************************)
\* the match test without the pid == -1 wildcard
waitpid_matches_exact(pid, p) == pid = p

\* |p| pid == -1 || pid as usize == p.getpid()
waitpid_matches(pid, p) == pid = -1 \/ pid = p

\* the index find() returns: the first matching Zombie child, 0 for None
waitpid_find(kids, status, pid) ==
    LET zs == {i \in 1..Len(kids) :
                  status[kids[i]] = "Zombie" /\ waitpid_matches(pid, kids[i])}
    IN  IF zs = {} THEN 0 ELSE CHOOSE i \in zs : \A j \in zs : i <= j

sys_waitpid(pid, exit_code_ptr) ==
    /\ pc = "user"
    /\ LET task == current_task(current)
           kids == children[task]
       IN  cell_log' = sys_waitpid_cells(task, kids,
               \E i \in 1..Len(kids) : waitpid_matches(pid, kids[i]),
               waitpid_find(kids, task_status, pid))
    /\ LET task == current_task(current)
           kids == children[task]
           idx  == waitpid_find(kids, task_status, pid)
       IN  IF ~\E i \in 1..Len(kids) : waitpid_matches(pid, kids[i])
           THEN /\ x10' = syscall_return(x10, task, -1)
                /\ last' = [op |-> "sys_waitpid", args |-> <<>>, ret |-> -1]
                /\ UNCHANGED <<ready_queue, current, pc, tasks, task_status,
                               task_stride, task_priority, start_time,
                               children, parent, exit_code, user_mem,
                               memory_set, selected, nsetprio, pt_vars>>
           ELSE IF idx # 0
           THEN LET child == kids[idx]
                    kids1 == [children EXCEPT ![task] = RemoveAt(@, idx)]
                IN  IF strong_count(child, ready_queue, current, kids1) + 1 # 1
                    THEN \* assert_eq!(Arc::strong_count(&child), 1) fails
                         /\ pc' = "panic"
                         /\ children' = kids1
                         /\ last' = [op |-> "sys_waitpid", args |-> <<>>, ret |-> None]
                         /\ UNCHANGED <<ready_queue, current, tasks,
                                        task_status, task_stride,
                                        task_priority, start_time, parent,
                                        exit_code, x10, user_mem, memory_set,
                                        selected, nsetprio, pt_vars>>
                    ELSE /\ children' = kids1
                         /\ user_mem' = [user_mem EXCEPT
                                ![task][exit_code_ptr] = exit_code[child]]
                         /\ x10' = syscall_return(
                                [x10 EXCEPT ![child] = 0], task, child)
                         \* the last Arc is dropped: the TCB is deallocated
                         /\ tasks' = tasks \ {child}
                         /\ task_status' = [task_status EXCEPT ![child] = "Ready"]
                         /\ task_stride' = [task_stride EXCEPT ![child] = PassNew]
                         /\ task_priority' = [task_priority EXCEPT
                                ![child] = DefaultPriority]
                         /\ start_time' = [start_time EXCEPT ![child] = 0]
                         /\ parent' = [parent EXCEPT ![child] = None]
                         /\ exit_code' = [exit_code EXCEPT ![child] = 0]
                         /\ memory_set' = [memory_set EXCEPT
                                ![child] = from_elf]
                         /\ last' = [op |-> "sys_waitpid", args |-> <<>>, ret |-> child]
                         /\ UNCHANGED <<ready_queue, current, pc, selected,
                                        nsetprio, pt_vars>>
           ELSE /\ x10' = syscall_return(x10, task, -2)
                /\ last' = [op |-> "sys_waitpid", args |-> <<>>, ret |-> -2]
                /\ UNCHANGED <<ready_queue, current, pc, tasks, task_status,
                               task_stride, task_priority, start_time,
                               children, parent, exit_code, user_mem,
                               memory_set, selected, nsetprio, pt_vars>>

(***************************************************************************)
(* set_priority (task/manager.rs) and sys_set_priority                     *)
(***************************************************************************)
\* set_priority that rejects only priority < 1
set_priority_lax(old, priority) ==
    IF priority < 1
    THEN [args |-> <<>>, ret |-> -1, task_priority |-> old]
    ELSE [args |-> <<>>, ret |-> 0, task_priority |-> priority]

set_priority(old, priority) ==
    IF priority < 2
    THEN [args |-> <<>>, ret |-> -1, task_priority |-> old]
    ELSE [args |-> <<>>, ret |-> 0, task_priority |-> priority]

sys_set_priority(prio) ==
    /\ pc = "user"
    /\ LET task == current_task(current)
           r    == set_priority(task_priority[task], prio)
           ret  == IF r.ret = 0 THEN prio ELSE -1
       IN  /\ r.ret = 0 => nsetprio < MaxSetPrio
           /\ task_priority' = [task_priority EXCEPT ![task] = r.task_priority]
           /\ nsetprio' = IF r.ret = 0 THEN nsetprio + 1 ELSE nsetprio
           /\ x10' = syscall_return(x10, task, ret)
           /\ last' = [op |-> "sys_set_priority", args |-> <<>>, ret |-> ret]
           /\ cell_log' = sys_set_priority_cells(task, prio)
    /\ UNCHANGED <<ready_queue, current, pc, tasks, task_status, task_stride,
                   start_time, children, parent, exit_code, user_mem,
                   memory_set, selected, pt_vars>>

(***************************************************************************)
(* sys_mmap and sys_munmap                                                 *)
(***************************************************************************)
\* port & 0x7 and port & !0x7 of an unsigned port
and_0x7(port) == port % 8

and_not_0x7(port) == port - (port % 8)

\* sys_mmap that passes len, not start + len, as the end address
sys_mmap_result_len(ms, start, len, port) ==
    IF ~aligned(start) \/ and_not_0x7(port) # 0 \/ and_0x7(port) = 0
    THEN {[ret |-> -1, ms |-> ms]}
    ELSE IF len = 0
    THEN {[ret |-> 0, ms |-> ms]}
    ELSE mmap(ms, start, len, port)

\* sys_mmap without the test of the high bits of port
sys_mmap_result_port(ms, start, len, port) ==
    IF ~aligned(start) \/ and_0x7(port) = 0
    THEN {[ret |-> -1, ms |-> ms]}
    ELSE IF len = 0
    THEN {[ret |-> 0, ms |-> ms]}
    ELSE mmap(ms, start, start + len, port)

\* sys_mmap without the early return for len == 0
sys_mmap_result_nolen(ms, start, len, port) ==
    IF ~aligned(start) \/ and_not_0x7(port) # 0 \/ and_0x7(port) = 0
    THEN {[ret |-> -1, ms |-> ms]}
    ELSE mmap(ms, start, start + len, port)

\* the return value of sys_mmap and the memory set it leaves
sys_mmap_result(ms, start, len, port) ==
    IF ~aligned(start) \/ and_not_0x7(port) # 0 \/ and_0x7(port) = 0
    THEN {[ret |-> -1, ms |-> ms]}
    ELSE IF len = 0
    THEN {[ret |-> 0, ms |-> ms]}
    ELSE mmap(ms, start, start + len, port)

sys_mmap(start, len, port) ==
    /\ pc = "user"
    /\ start + len <= (MaxVpn + 1) * PAGE_SIZE
    /\ LET task == current_task(current)
       IN  \E r \in sys_mmap_result(memory_set[task], start, len, port) :
             /\ memory_set' = [memory_set EXCEPT ![task] = r.ms]
             /\ x10' = syscall_return(x10, task, r.ret)
             /\ last' = [op |-> "sys_mmap", args |-> <<start, len, port>>,
                         ret |-> r.ret]
             /\ cell_log' = IF ~aligned(start) \/ and_not_0x7(port) # 0
                                \/ and_0x7(port) = 0 \/ len = 0
                             THEN <<>> ELSE memory_set_cells(task)
    /\ UNCHANGED <<ready_queue, current, pc, tasks, task_status, task_stride,
                   task_priority, start_time, children, parent, exit_code,
                   user_mem, selected, nsetprio, pt_vars>>

\* the return value of sys_munmap and the memory set it leaves
sys_munmap_result(ms, start, len) ==
    IF ~aligned(start)
    THEN {[ret |-> -1, ms |-> ms]}
    ELSE IF len = 0
    THEN {[ret |-> 0, ms |-> ms]}
    ELSE munmap(ms, start, start + len)

sys_munmap(start, len) ==
    /\ pc = "user"
    /\ start + len <= (MaxVpn + 1) * PAGE_SIZE
    /\ LET task == current_task(current)
       IN  \E r \in sys_munmap_result(memory_set[task], start, len) :
             /\ memory_set' = [memory_set EXCEPT ![task] = r.ms]
             /\ x10' = syscall_return(x10, task, r.ret)
             /\ last' = [op |-> "sys_munmap", args |-> <<start, len>>,
                         ret |-> r.ret]
             /\ cell_log' = IF ~aligned(start) \/ len = 0
                             THEN <<>> ELSE memory_set_cells(task)
    /\ UNCHANGED <<ready_queue, current, pc, tasks, task_status, task_stride,
                   task_priority, start_time, children, parent, exit_code,
                   user_mem, selected, nsetprio, pt_vars>>

(***************************************************************************)
(* The page table of the running task: map, unmap, translate and the       *)
(* accesses to user memory through it                                      *)
(***************************************************************************)
\* PageTable::new: the root frame is the first frame allocated
PageTable_new ==
    /\ root_ppn = frame_alloc(<<>>)
    /\ frames = <<frame_alloc(<<>>)>>
    /\ pte_array = [f \in PtFrames |-> [i \in Idx |-> pte_empty]]
    /\ bytes_array = <<>>
    /\ ntime = 0

\* map without the assertion on the leaf
PageTable_map_overwrite(vpn, ppn, flags) ==
    /\ pc = "user"
    /\ LET r == find_pte_create(pte_array, frames, root_ppn, indexes(vpn), 0)
       IN  /\ frames' = r.frames
           /\ pte_array' = [r.mem EXCEPT ![r.loc[1]][r.loc[2]] =
                               pte_new(ppn, or_V(flags))]
           /\ pc' = pc
           /\ last' = [op |-> "map", args |-> <<vpn, ppn, flags>>, ret |-> 0]
    /\ UNCHANGED <<task_vars, root_ppn, bytes_array, ntime, cell_log>>

PageTable_map(vpn, ppn, flags) ==
    /\ pc = "user"
    /\ LET r   == find_pte_create(pte_array, frames, root_ppn, indexes(vpn), 0)
           pte == r.mem[r.loc[1]][r.loc[2]]
       IN  /\ frames' = r.frames
           /\ IF is_valid(pte)
              THEN \* assert!(!pte.is_valid()) fails
                   /\ pte_array' = r.mem
                   /\ pc' = "panic"
                   /\ last' = [op |-> "map", args |-> <<vpn, ppn, flags>>,
                               ret |-> None]
              ELSE /\ pte_array' = [r.mem EXCEPT ![r.loc[1]][r.loc[2]] =
                                       pte_new(ppn, or_V(flags))]
                   /\ pc' = pc
                   /\ last' = [op |-> "map", args |-> <<vpn, ppn, flags>>,
                               ret |-> 0]
    /\ UNCHANGED <<task_vars, root_ppn, bytes_array, ntime, cell_log>>

PageTable_unmap(vpn) ==
    /\ pc = "user"
    /\ LET r   == find_pte_create(pte_array, frames, root_ppn, indexes(vpn), 0)
           pte == r.mem[r.loc[1]][r.loc[2]]
       IN  /\ frames' = r.frames
           /\ IF ~is_valid(pte)
              THEN \* assert!(pte.is_valid()) fails
                   /\ pte_array' = r.mem
                   /\ pc' = "panic"
                   /\ last' = [op |-> "unmap", args |-> <<vpn>>, ret |-> None]
              ELSE /\ pte_array' = [r.mem EXCEPT ![r.loc[1]][r.loc[2]] =
                                       pte_empty]
                   /\ pc' = pc
                   /\ last' = [op |-> "unmap", args |-> <<vpn>>, ret |-> 0]
    /\ UNCHANGED <<task_vars, root_ppn, bytes_array, ntime, cell_log>>

PageTable_translate(vpn) ==
    /\ pc = "user"
    /\ last' = [op |-> "translate", args |-> <<vpn>>,
                ret |-> translate(pte_array, root_ppn, vpn)]
    /\ UNCHANGED <<task_vars, pc, pt_vars, cell_log>>

\* a kernel path that calls translated_byte_buffer with the running task's
\* token
translated_byte_buffer_call(ptr, len) ==
    /\ pc = "user"
    /\ ptr + len <= (TopVpn + 1) * PAGE_SIZE
    /\ LET r == translated_byte_buffer(pte_array, token(root_ppn), ptr, len)
       IN  /\ pc' = IF r.panic THEN "panic" ELSE pc
           /\ last' = [op |-> "translated_byte_buffer", args |-> <<ptr, len>>,
                       ret |-> IF r.panic THEN None ELSE Len(r.v),
                       bufs |-> r.v]
    /\ UNCHANGED <<task_vars, pt_vars, cell_log>>

\* sys_get_time(ts, _tz) when get_time_us() returns us
sys_get_time(ts, us) ==
    /\ pc = "user"
    /\ ntime < MaxTime
    /\ cell_log' = current_user_token_cells(current_task(current))
    /\ LET bufs == translated_large_type(pte_array, token(root_ppn), ts)
       IN  IF bufs.panic
           THEN /\ pc' = "panic"
                /\ last' = [op |-> "sys_get_time", args |-> <<ts, us>>,
                            ret |-> None]
                /\ UNCHANGED <<task_vars, pt_vars>>
           ELSE /\ bytes_array' = copy_type_into_bufs(bytes_array,
                                      TimeVal_bytes(us), bufs.v, 0)
                /\ ntime' = ntime + 1
                /\ x10' = syscall_return(x10, current_task(current), 0)
                /\ last' = [op |-> "sys_get_time", args |-> <<ts, us>>,
                            ret |-> 0]
                /\ UNCHANGED <<ready_queue, current, pc, tasks, task_status,
                               task_stride, task_priority, start_time,
                               children, parent, exit_code, user_mem,
                               memory_set, selected, nsetprio, root_ppn,
                               frames, pte_array>>

(***************************************************************************)
(* sys_exec and sys_spawn                                                  *)
(*                                                                         *)
(* An application name is a number; path is the name translated_str has    *)
(* read from the caller's memory.                                          *)
(***************************************************************************)
\* the applications linked into the kernel image
AppNames == {0, 1}

\* a loader that finds data for every name
get_app_data_by_name_any(name) == name

\* get_app_data_by_name: the ELF data of the application, None if there is
\* no application of that name
get_app_data_by_name(name) == IF name \in AppNames THEN name ELSE None

\* task.exec(data): a new address space and a fresh trap context; the pid,
\* the parent and the children are kept
exec(task, data) ==
    /\ memory_set' = [memory_set EXCEPT ![task] = from_elf]
    /\ user_mem' = [user_mem EXCEPT ![task] = [a \in UserPtrs |-> 0]]
    /\ start_time' = [start_time EXCEPT ![task] = 0]

sys_exec(path) ==
    /\ pc = "user"
    /\ LET task == current_task(current)
           data == get_app_data_by_name(path)
       IN  IF data # None
           THEN /\ exec(task, data)
                /\ x10' = syscall_return(x10, task, 0)
                /\ last' = [op |-> "sys_exec", args |-> <<path>>, ret |-> 0]
                /\ cell_log' = sys_exec_cells(task, data)
           ELSE /\ x10' = syscall_return(x10, task, -1)
                /\ last' = [op |-> "sys_exec", args |-> <<path>>, ret |-> -1]
                /\ cell_log' = sys_exec_cells(task, data)
                /\ UNCHANGED <<memory_set, user_mem, start_time>>
    /\ UNCHANGED <<ready_queue, current, pc, tasks, task_status, task_stride,
                   task_priority, children, parent, exit_code, selected,
                   nsetprio, pt_vars>>

\* task.spawn(data): a new TCB with pid new_pid and the address space of
\* the application, pushed into task's children
spawn(task, new_pid, data) ==
    /\ tasks' = tasks \cup {new_pid}
    /\ task_status' = [task_status EXCEPT ![new_pid] = "Ready"]
    /\ task_stride' = [task_stride EXCEPT ![new_pid] = PassNew]
    /\ task_priority' = [task_priority EXCEPT ![new_pid] = DefaultPriority]
    /\ start_time' = [start_time EXCEPT ![new_pid] = 0]
    /\ parent' = [parent EXCEPT ![new_pid] = task]
    /\ children' = [children EXCEPT
           ![task] = Append(@, new_pid), ![new_pid] = <<>>]
    /\ exit_code' = [exit_code EXCEPT ![new_pid] = 0]
    /\ user_mem' = [user_mem EXCEPT ![new_pid] = [a \in UserPtrs |-> 0]]
    /\ memory_set' = [memory_set EXCEPT ![new_pid] = from_elf]

sys_spawn(path) ==
    /\ pc = "user"
    /\ LET task == current_task(current)
           data == get_app_data_by_name(path)
       IN  IF data # None
           THEN \E new_pid \in Pids \ tasks :
                  /\ spawn(task, new_pid, data)
                  /\ x10' = syscall_return(
                         set_child_a0(x10, new_pid), task, new_pid)
                  /\ ready_queue' = add(ready_queue, new_pid)
                  /\ last' = [op |-> "sys_spawn", args |-> <<path>>,
                              ret |-> new_pid]
                  /\ cell_log' = sys_spawn_cells(task, data, new_pid)
           ELSE /\ x10' = syscall_return(x10, task, -1)
                /\ last' = [op |-> "sys_spawn", args |-> <<path>>, ret |-> -1]
                /\ cell_log' = sys_spawn_cells(task, data, None)
                /\ UNCHANGED <<ready_queue, tasks, task_status, task_stride,
                               task_priority, start_time, parent, children,
                               exit_code, user_mem, memory_set>>
    /\ UNCHANGED <<current, pc, selected, nsetprio, pt_vars>>

(***************************************************************************)
(* The kernel after boot: initproc is the only task, in the ready queue    *)
(***************************************************************************)
Init ==
    /\ ready_queue = <<INITPROC>>
    /\ current = None
    /\ pc = "idle"
    /\ tasks = {INITPROC}
    /\ task_status = [p \in Pids |-> "Ready"]
    /\ task_stride = [p \in Pids |-> PassNew]
    /\ task_priority = [p \in Pids |-> DefaultPriority]
    /\ start_time = [p \in Pids |-> 0]
    /\ children = [p \in Pids |-> <<>>]
    /\ parent = [p \in Pids |-> None]
    /\ exit_code = [p \in Pids |-> 0]
    /\ x10 = [p \in Pids |-> 0]
    /\ user_mem = [p \in Pids |-> [a \in UserPtrs |-> 0]]
    /\ memory_set = [p \in Pids |-> from_elf]
    /\ PageTable_new
    /\ selected = [p \in Pids |-> 0]
    /\ nsetprio = 0
    /\ last = [op |-> "boot", args |-> <<>>, ret |-> 0]
    /\ cell_log = <<>>

Next ==
    \/ run_tasks(MaxRuns)
    \/ sys_yield
    \/ \E code \in ExitCodes : sys_exit(code)
    \/ sys_fork
    \/ \E pid \in PidArgs, ptr \in UserPtrs : sys_waitpid(pid, ptr)
    \/ \E prio \in PrioArgs : sys_set_priority(prio)

Spec == Init /\ [][Next]_vars

(***************************************************************************)
(* The scheduler on its own: three tasks, all Ready with the same pass,    *)
(* that run, yield and change their priority                               *)
(***************************************************************************)
StrideTasks == {0, 1, 2}

Perms(S) == {q \in [1..Cardinality(S) -> S] :
                \A i, j \in 1..Cardinality(S) : i # j => q[i] # q[j]}

InitStride ==
    /\ ready_queue \in Perms(StrideTasks)
    /\ current = None
    /\ pc = "idle"
    /\ tasks = StrideTasks
    /\ task_status = [p \in Pids |-> "Ready"]
    /\ task_stride = [p \in Pids |-> PassNew]
    /\ \E prios \in [StrideTasks -> Priorities] :
          task_priority = [p \in Pids |->
              IF p \in StrideTasks THEN prios[p] ELSE DefaultPriority]
    /\ start_time = [p \in Pids |-> 0]
    /\ children = [p \in Pids |-> IF p = INITPROC THEN <<1, 2>> ELSE <<>>]
    /\ parent = [p \in Pids |-> IF p \in {1, 2} THEN INITPROC ELSE None]
    /\ exit_code = [p \in Pids |-> 0]
    /\ x10 = [p \in Pids |-> 0]
    /\ user_mem = [p \in Pids |-> [a \in UserPtrs |-> 0]]
    /\ memory_set = [p \in Pids |-> from_elf]
    /\ PageTable_new
    /\ selected = [p \in Pids |-> 0]
    /\ nsetprio = 0
    /\ last = [op |-> "boot", args |-> <<>>, ret |-> 0]
    /\ cell_log = <<>>

NextStride ==
    \/ run_tasks(MaxFetch)
    \/ sys_yield
    \/ \E prio \in StridePrioArgs : sys_set_priority(prio)

SpecStride == InitStride /\ [][NextStride]_vars

(***************************************************************************)
(* The memory syscalls on their own: initproc has been switched in and     *)
(* calls sys_mmap and sys_munmap                                           *)
(***************************************************************************)
StartArgs == {v * PAGE_SIZE : v \in Vpns} \cup {PAGE_SIZE + 8}
LenArgs == {0, PAGE_SIZE, PAGE_SIZE + 1}
PortArgs == {0, 3, 8, 11}

InitMem ==
    /\ ready_queue = <<>>
    /\ current = INITPROC
    /\ pc = "user"
    /\ tasks = {INITPROC}
    /\ task_status = [p \in Pids |-> IF p = INITPROC THEN "Running" ELSE "Ready"]
    /\ task_stride = [p \in Pids |->
          IF p = INITPROC THEN step_by_prio(PassNew, DefaultPriority)
          ELSE PassNew]
    /\ task_priority = [p \in Pids |-> DefaultPriority]
    /\ start_time = [p \in Pids |-> IF p = INITPROC THEN 1 ELSE 0]
    /\ children = [p \in Pids |-> <<>>]
    /\ parent = [p \in Pids |-> None]
    /\ exit_code = [p \in Pids |-> 0]
    /\ x10 = [p \in Pids |-> 0]
    /\ user_mem = [p \in Pids |-> [a \in UserPtrs |-> 0]]
    /\ memory_set = [p \in Pids |-> from_elf]
    /\ PageTable_new
    /\ selected = [p \in Pids |-> IF p = INITPROC THEN 1 ELSE 0]
    /\ nsetprio = 0
    /\ last = [op |-> "fetch_task", args |-> <<>>, ret |-> INITPROC]
    /\ cell_log = run_tasks_cells(<<INITPROC>>, [p \in Pids |-> PassNew])

NextMem ==
    \/ \E start \in StartArgs, len \in LenArgs, port \in PortArgs :
          sys_mmap(start, len, port)
    \/ \E start \in StartArgs, len \in LenArgs : sys_munmap(start, len)

SpecMem == InitMem /\ [][NextMem]_vars

(***************************************************************************)
(* The running task's page table under map, unmap, translate and the       *)
(* kernel's accesses to user memory                                        *)
(***************************************************************************)
InitPT == InitMem

NextPT ==
    \/ \E vpn \in VpnArgs, ppn \in PpnArgs, flags \in FlagArgs :
          PageTable_map(vpn, ppn, flags)
    \/ \E vpn \in VpnArgs : PageTable_unmap(vpn)
    \/ \E vpn \in VpnArgs : PageTable_translate(vpn)

SpecPT == InitPT /\ [][NextPT]_vars

(***************************************************************************)
(* The kernel's accesses to user memory while the running task's page      *)
(* table changes                                                           *)
(***************************************************************************)
\* user pointers: the start of page 0, 4 bytes before the end of page 0,
\* and a place in the top page
BufPtrArgs == {0, PAGE_SIZE - 4, TopVpn * PAGE_SIZE + 8}
BufLenArgs == {0, 4, SizeOfTimeVal, PAGE_SIZE + 4}
TimePtrArgs == {PAGE_SIZE - 4, TopVpn * PAGE_SIZE + 8}
TimeArgs == {258066051}
BufFlagArgs == {PTE_R + PTE_W + PTE_U}

InitBuf == InitMem

NextBuf ==
    \/ \E vpn \in VpnArgs, ppn \in PpnArgs, flags \in BufFlagArgs :
          PageTable_map(vpn, ppn, flags)
    \/ \E vpn \in VpnArgs : PageTable_unmap(vpn)
    \/ \E ptr \in BufPtrArgs, len \in BufLenArgs :
          translated_byte_buffer_call(ptr, len)
    \/ \E ts \in TimePtrArgs, us \in TimeArgs : sys_get_time(ts, us)

SpecBuf == InitBuf /\ [][NextBuf]_vars

(***************************************************************************)
(* Tasks that load applications: exec, spawn, and an mmap that makes the   *)
(* caller's address space differ from a new one                            *)
(***************************************************************************)
\* the names of two applications and a name of none
PathArgs == {0, 1, 7}

InitApp == Init

NextApp ==
    \/ run_tasks(MaxRuns)
    \/ sys_yield
    \/ \E path \in PathArgs : sys_exec(path)
    \/ \E path \in PathArgs : sys_spawn(path)
    \/ sys_mmap(PAGE_SIZE, PAGE_SIZE, 3)

SpecApp == InitApp /\ [][NextApp]_vars

(***************************************************************************)
(* The scheduler kept running: tasks run, fork, raise their stride and     *)
(* yield, none exits, and fetch_task is called again and again             *)
(***************************************************************************)
MaxStarve == 24

\* the number of fetch_task calls within which two other tasks, advancing by
\* BIG_STRIDE / DefaultPriority or more, pass a window of BIG_STRIDE / 2
StarveWindow ==
    2 * ((BIG_STRIDE \div 2) \div (BIG_STRIDE \div DefaultPriority)) + 4

InitStarve == Init

NextStarve ==
    \/ run_tasks(MaxStarve)
    \/ sys_yield
    \/ sys_fork
    \/ sys_set_priority(2)

\* the idle loop keeps calling fetch_task and a running task gives up the
\* CPU
SpecStarve ==
    /\ InitStarve
    /\ [][NextStarve]_vars
    /\ WF_vars(run_tasks(MaxStarve))
    /\ WF_vars(sys_yield)

TypeOK ==
    /\ current \in Pids \cup {None}
    /\ pc \in {"idle", "user", "panic", "shutdown"}
    /\ tasks \subseteq Pids
    /\ \A i \in 1..Len(ready_queue) : ready_queue[i] \in tasks

(***************************************************************************)
(* Properties                                                              *)
(***************************************************************************)
Half == BIG_STRIDE \div 2

\* the pass a just-fetched task had when fetch compared it
PrevPass(t) ==
    task_stride[t]
    - (IF BIG_STRIDE \div task_priority[t] = 0 THEN 1
       ELSE BIG_STRIDE \div task_priority[t])

\* a < b as the specification words it
SpecLess(a, b) ==
    (a <= b) # ((IF a > b THEN a - b ELSE b - a) > Half)

\* position i of the ready queue holds a pass that is smallest under the
\* Pass comparison: it compares Less against every other queued pass
IsSmallest(i) ==
    \A j \in 1..Len(ready_queue) :
        j # i => SpecLess(task_stride[ready_queue[i]],
                          task_stride[ready_queue[j]])

SamePass(i, j) == task_stride[ready_queue[i]] = task_stride[ready_queue[j]]

\* C1 (as claimed): fetch on a non-empty queue returns the task whose pass is
\* smallest under the Pass comparison, among several tasks with that pass the
\* one at the LOWEST queue index; on an empty queue it returns none.
C1_FetchLowestIndex ==
    LET r == fetch_index(ready_queue, task_stride)
    IN  /\ ready_queue = <<>> => fetch(ready_queue, task_stride) = None
        /\ ready_queue # <<>> =>
             /\ r \in 1..Len(ready_queue)
             /\ fetch(ready_queue, task_stride) = ready_queue[r]
             /\ (\E i \in 1..Len(ready_queue) : IsSmallest(i)) =>
                  /\ IsSmallest(r)
                  /\ \A j \in 1..Len(ready_queue) : SamePass(j, r) => r <= j

\* C1 (amended): fetch on a non-empty queue returns the task whose pass is
\* smallest under the Pass comparison, among several tasks with that pass the
\* one at the HIGHEST queue index; on an empty queue it returns none.
C1_FetchHighestIndex ==
    LET r == fetch_index(ready_queue, task_stride)
    IN  /\ ready_queue = <<>> => fetch(ready_queue, task_stride) = None
        /\ ready_queue # <<>> =>
             /\ r \in 1..Len(ready_queue)
             /\ fetch(ready_queue, task_stride) = ready_queue[r]
             /\ (\E i \in 1..Len(ready_queue) : IsSmallest(i)) =>
                  /\ IsSmallest(r)
                  /\ \A j \in 1..Len(ready_queue) : SamePass(j, r) => j <= r

\* fetch_task has just returned a task whose pass was tied with the pass of
\* a task that is still queued
C1_Witness ==
    /\ pc = "user"
    /\ last.op = "fetch_task"
    /\ \E j \in 1..Len(ready_queue) :
          task_stride[ready_queue[j]] = PrevPass(current)

\* C2: three tasks with priorities 2, 4 and 8 that start with the same pass
\* and are re-added after each run are selected 2, 4 and 8 times in the
\* first 14 calls of fetch_task.
C2_StrideCounts ==
    ( /\ nsetprio = 0
      /\ nfetch = 14
      /\ {task_priority[t] : t \in StrideTasks} = {2, 4, 8} )
    => \A t \in StrideTasks : selected[t] = task_priority[t]

C2_Witness ==
    /\ nsetprio = 0
    /\ nfetch = 14
    /\ {task_priority[t] : t \in StrideTasks} = {2, 4, 8}
    /\ last.op = "fetch_task"

PassGrid == {0, Half, Half + 1, BIG_STRIDE}

\* C3: for all pass values a and b, a < b is true exactly when
\* (a <= b) XOR (|a - b| > BIG_STRIDE/2), and a == b is false, also for a
\* equal to b.
C3_PassCompare ==
    \A a, b \in PassGrid \cup {task_stride[p] : p \in tasks} :
        /\ lt(a, b) <=> SpecLess(a, b)
        /\ ~eq(a, b)

\* fetch has just compared two passes more than BIG_STRIDE/2 apart
C3_Witness ==
    /\ last.op = "fetch_task"
    /\ \E j \in 1..Len(ready_queue) :
          PrevPass(current) - task_stride[ready_queue[j]] > Half

\* C4: a successful fetch_task advances the pass of exactly the chosen task,
\* by max(1, BIG_STRIDE / priority) for its current priority, and so strictly
\* increases it; no step lowers the pass of a task.
C4_PassAdvance ==
    [][ /\ \A p \in tasks \cap tasks' : task_stride'[p] >= task_stride[p]
        /\ selected' # selected =>
             \E t \in tasks :
                /\ current' = t
                /\ selected' = [selected EXCEPT ![t] = @ + 1]
                /\ task_stride'[t] = task_stride[t]
                      + (IF BIG_STRIDE \div task_priority[t] >= 1
                         THEN BIG_STRIDE \div task_priority[t] ELSE 1)
                /\ task_stride'[t] > task_stride[t]
                /\ \A p \in Pids \ {t} : task_stride'[p] = task_stride[p]
      ]_vars

\* a task whose priority exceeds BIG_STRIDE has been selected twice
C4_Witness ==
    /\ last.op = "fetch_task"
    /\ task_priority[current] > BIG_STRIDE
    /\ nsetprio = 1
    /\ selected[current] >= 2
    /\ task_stride[current] > 0

\* the arguments of the call that a step makes, as the step records them
Arg(i) == last'.args[i]

\* the children of the running task that match the pid argument of waitpid
Matching(pid) ==
    {i \in 1..Len(children[current]) :
        pid = -1 \/ children[current][i] = pid}

ZombieMatching(pid) ==
    {i \in Matching(pid) : task_status[children[current][i]] = "Zombie"}

\* C5: sys_waitpid returns -1 when no child matches pid, -2 when a child
\* matches but no matching child is a Zombie, and otherwise removes exactly
\* one matching Zombie child from the caller's children and returns its pid;
\* when it returns -1 or -2 the children lists and the user memory are
\* unchanged.
C5_WaitpidResult ==
    [][ last'.op = "sys_waitpid" =>
        \A pid \in PidArgs, ptr \in UserPtrs :
          sys_waitpid(pid, ptr) =>
            /\ Matching(pid) = {} =>
                 /\ last'.ret = -1
                 /\ children' = children /\ user_mem' = user_mem
            /\ (Matching(pid) # {} /\ ZombieMatching(pid) = {}) =>
                 /\ last'.ret = -2
                 /\ children' = children /\ user_mem' = user_mem
            /\ ZombieMatching(pid) # {} =>
                 \E i \in ZombieMatching(pid) :
                    /\ last'.ret = children[current][i]
                    /\ x10'[current] = children[current][i]
                    /\ children' = [children EXCEPT
                          ![current] = SubSeq(@, 1, i - 1)
                                       \o SubSeq(@, i + 1, Len(@))]
      ]_vars

\* waitpid has reaped one Zombie child of a task that has another child left
C5_Witness ==
    /\ last.op = "sys_waitpid"
    /\ last.ret >= 0
    /\ pc = "user"
    /\ Len(children[current]) >= 1

\* C6: the assert on strong_count in sys_waitpid never fails: a Zombie is
\* neither in the ready queue nor in the processor's current slot, exactly one
\* children list refers to it, and once waitpid returns its pid the TCB is
\* deallocated.
C6_ZombieRefcount ==
    /\ pc # "panic"
    /\ \A t \in tasks :
          task_status[t] = "Zombie" =>
             /\ \A i \in 1..Len(ready_queue) : ready_queue[i] # t
             /\ current # t
             /\ strong_count(t, ready_queue, current, children) = 1
    /\ (last.op = "sys_waitpid" /\ last.ret >= 0) =>
          /\ last.ret \notin tasks
          /\ \A p \in Pids : \A i \in 1..Len(children[p]) :
                children[p][i] # last.ret

\* waitpid has reaped a Zombie and deallocated it: nothing refers to it any
\* more, while a live sibling is still counted twice (queue and children)
C6_Witness ==
    /\ last.op = "sys_waitpid"
    /\ last.ret >= 0
    /\ last.ret \notin tasks
    /\ strong_count(last.ret, ready_queue, current, children) = 0
    /\ \E t \in tasks \ {INITPROC} :
          /\ task_status[t] = "Ready"
          /\ strong_count(t, ready_queue, current, children) = 2

\* C7: sys_fork returns the new child's pid (> 0) to the parent, the child's
\* x[10] is 0, the child is appended to the ready queue and to the parent's
\* children; a child that exits with code c is a Zombie with that exit code;
\* waitpid(-1, ptr) of a parent with a Zombie child returns that child's pid
\* and writes its exit code to the parent's memory at ptr.
C7_ForkExitWait ==
    [][ /\ (last'.op = "sys_fork" /\ sys_fork) =>
             LET c == last'.ret
             IN  /\ c > 0
                 /\ c \notin tasks /\ c \in tasks'
                 /\ x10'[current] = c
                 /\ x10'[c] = 0
                 /\ ready_queue' = Append(ready_queue, c)
                 /\ children'[current] = Append(children[current], c)
                 /\ parent'[c] = current
        /\ \A code \in ExitCodes :
             (last'.op = "sys_exit" /\ sys_exit(code) /\ current # INITPROC) =>
                 /\ task_status'[current] = "Zombie"
                 /\ exit_code'[current] = code
        /\ \A ptr \in UserPtrs :
             ( /\ last'.op = "sys_waitpid"
               /\ sys_waitpid(-1, ptr)
               /\ ZombieMatching(-1) # {} ) =>
                 LET c == last'.ret
                 IN  /\ \E i \in ZombieMatching(-1) : children[current][i] = c
                     /\ Cardinality(ZombieMatching(-1)) = 1 =>
                          \A i \in ZombieMatching(-1) : children[current][i] = c
                     /\ x10'[current] = c
                     /\ user_mem'[current][ptr] = exit_code[c]
      ]_vars

\* the parent forked twice, a child exited with code 42 and the parent's
\* waitpid(-1, ptr) has stored 42
C7_Witness ==
    /\ last.op = "sys_waitpid"
    /\ last.ret > 0
    /\ pc = "user"
    /\ \E a \in UserPtrs : user_mem[current][a] = 42
    /\ Cardinality(tasks) >= 2

\* C8: sys_set_priority(prio) returns prio and sets the caller's priority
\* when prio >= 2, returns -1 and leaves the priority unchanged when
\* prio < 2; every task's priority is >= 2 in every reachable state.
C8_SetPriority ==
    /\ [](\A t \in tasks : task_priority[t] >= 2)
    /\ [][ \A prio \in PrioArgs :
             (last'.op = "sys_set_priority" /\ sys_set_priority(prio)) =>
                /\ prio >= 2 =>
                     /\ last'.ret = prio
                     /\ task_priority' =
                           [task_priority EXCEPT ![current] = prio]
                /\ prio < 2 =>
                     /\ last'.ret = -1
                     /\ task_priority' = task_priority
         ]_vars

\* an illegal priority was rejected after a legal one had been set
C8_Witness ==
    /\ last.op = "sys_set_priority"
    /\ last.ret = -1
    /\ nsetprio = 1
    /\ pc = "user"
    /\ task_priority[current] = 2

\* the pages that the byte range [start, start + len) touches
Touched(start, len) ==
    {v \in Vpns : v * PAGE_SIZE < start + len /\ start < (v + 1) * PAGE_SIZE}

ValidPort(port) == port \in 1..7


MmapStep == last'.op = "sys_mmap" /\ sys_mmap(Arg(1), Arg(2), Arg(3))

MunmapStep == last'.op = "sys_munmap" /\ sys_munmap(Arg(1), Arg(2))

\* C9: with valid arguments sys_mmap returns 0 and maps every page of
\* [start, start+len) when none of them is mapped, and returns -1 and maps
\* nothing when one of them is mapped; after sys_munmap of a range returned
\* 0, sys_mmap of that range returns 0.
C9_MmapAllOrNothing ==
    [][ /\ ( /\ MmapStep
             /\ Arg(1) % PAGE_SIZE = 0 /\ ValidPort(Arg(3)) /\ Arg(2) > 0 ) =>
               LET old == memory_set[current].pt
               IN  /\ Touched(Arg(1), Arg(2)) \cap old = {} =>
                        /\ last'.ret = 0
                        /\ memory_set'[current].pt
                              = old \cup Touched(Arg(1), Arg(2))
                   /\ Touched(Arg(1), Arg(2)) \cap old # {} =>
                        /\ last'.ret = -1
                        /\ memory_set' = memory_set
        /\ ( /\ MunmapStep
             /\ last'.ret = 0 /\ Arg(2) > 0 ) =>
               /\ Touched(Arg(1), Arg(2)) \cap memory_set'[current].pt = {}
               /\ \A port \in PortArgs : ValidPort(port) =>
                     \A r \in sys_mmap_result(memory_set'[current],
                                              Arg(1), Arg(2), port) : r.ret = 0
      ]_vars

\* sys_mmap with valid arguments has refused a range of which one page was
\* mapped and another was not, after an earlier sys_mmap had succeeded
C9_Witness ==
    /\ last.op = "sys_mmap"
    /\ last.ret = -1
    /\ last.args[1] % PAGE_SIZE = 0
    /\ ValidPort(last.args[3])
    /\ Touched(last.args[1], last.args[2]) \cap memory_set[current].pt # {}
    /\ Touched(last.args[1], last.args[2]) \ memory_set[current].pt # {}
    /\ Cardinality(memory_set[current].areas) >= 3

\* C10: sys_mmap returns -1 and leaves the address space unchanged when
\* start is not page-aligned, or port has a bit outside its low three bits,
\* or the low three bits of port are all zero; sys_munmap returns -1 and
\* leaves the address space unchanged when start is not page-aligned.
C10_ArgumentChecks ==
    [][ /\ ( /\ MmapStep
             /\ \/ Arg(1) % PAGE_SIZE # 0
                \/ Arg(3) \div 8 # 0
                \/ Arg(3) % 8 = 0 ) =>
               /\ last'.ret = -1
               /\ memory_set' = memory_set
        /\ ( /\ MunmapStep
             /\ Arg(1) % PAGE_SIZE # 0 ) =>
               /\ last'.ret = -1
               /\ memory_set' = memory_set
      ]_vars

\* sys_mmap has refused an aligned, unmapped range only because port has a
\* bit above its low three bits
C10_Witness ==
    /\ last.op = "sys_mmap"
    /\ last.ret = -1
    /\ last.args[1] % PAGE_SIZE = 0
    /\ last.args[2] > 0
    /\ last.args[3] \div 8 # 0
    /\ last.args[3] % 8 # 0
    /\ Touched(last.args[1], last.args[2]) \cap memory_set[current].pt = {}

\* C11 as stated: every sys_mmap and every sys_munmap with len == 0 returns
\* 0 and leaves the address space unchanged, whatever start and port are.
C11_LenZeroAlways ==
    [][ /\ (MmapStep /\ Arg(2) = 0) =>
               /\ last'.ret = 0
               /\ memory_set' = memory_set
        /\ (MunmapStep /\ Arg(2) = 0) =>
               /\ last'.ret = 0
               /\ memory_set' = memory_set
      ]_vars

\* C11: sys_mmap with len == 0, a page-aligned start and a valid port, and
\* sys_munmap with len == 0 and a page-aligned start, return 0 and leave
\* the address space unchanged; with len == 0 and a misaligned start or an
\* invalid port they return -1, still without changing the address space.
C11_LenZero ==
    [][ /\ (MmapStep /\ Arg(2) = 0) =>
               /\ memory_set' = memory_set
               /\ last'.ret =
                     (IF Arg(1) % PAGE_SIZE = 0 /\ ValidPort(Arg(3))
                      THEN 0 ELSE -1)
        /\ (MunmapStep /\ Arg(2) = 0) =>
               /\ memory_set' = memory_set
               /\ last'.ret = (IF Arg(1) % PAGE_SIZE = 0 THEN 0 ELSE -1)
      ]_vars

\* sys_mmap with len == 0 and valid arguments has returned 0 on a start
\* whose page is already mapped, after an earlier sys_mmap had added an area
C11_Witness ==
    /\ last.op = "sys_mmap"
    /\ last.args[2] = 0
    /\ last.ret = 0
    /\ floor(last.args[1]) \in memory_set[current].pt
    /\ Cardinality(memory_set[current].areas) >= 3

\* the translation the paging hardware makes of vpn in page-table memory
\* mem: the leaf PTE when the PTEs of all three levels are valid, else None
HwWalk(mem, root, vpn) ==
    LET i  == indexes(vpn)
        e2 == mem[root][i[1]]
    IN  IF e2 % 2 = 0 THEN None
        ELSE LET e1 == mem[e2 \div 1024][i[2]]
             IN  IF e1 % 2 = 0 THEN None
                 ELSE LET e0 == mem[e1 \div 1024][i[3]]
                      IN  IF e0 % 2 = 0 THEN None ELSE e0

\* the flags of the set of flag bits in the low 8 bits of a word
FlagBits(w) == {b \in {1, 2, 4, 8, 16, 32, 64, 128} : (w \div b) % 2 = 1}

MapStep == last'.op = "map" /\ PageTable_map(Arg(1), Arg(2), Arg(3))

UnmapStep == last'.op = "unmap" /\ PageTable_unmap(Arg(1))

\* C12: after map(v, p, f) on a VPN v that was unmapped, translate(v)
\* returns a PTE whose PPN is p and whose flags are f with V added; a map or
\* unmap of another VPN does not change what translate returns for a mapped
\* VPN.
C12_MapTranslate ==
    [][ /\ (MapStep /\ HwWalk(pte_array, root_ppn, Arg(1)) = None) =>
              LET t == translate(pte_array', root_ppn', Arg(1))
              IN  /\ t # None
                  /\ t \div 1024 = Arg(2)
                  /\ FlagBits(t) = FlagBits(Arg(3)) \cup {PTE_V}
                  /\ HwWalk(pte_array', root_ppn', Arg(1)) = t
        /\ (MapStep \/ UnmapStep) =>
              \A v \in VpnArgs \ {Arg(1)} :
                 HwWalk(pte_array, root_ppn, v) # None =>
                    /\ translate(pte_array', root_ppn', v)
                          = translate(pte_array, root_ppn, v)
                    /\ translate(pte_array, root_ppn, v)
                          = HwWalk(pte_array, root_ppn, v)
      ]_vars

\* translate has returned the mapping of VPN 0 to frame 22 after VPN 1,
\* which shares its page-table nodes, was mapped and unmapped again and
\* while TopVpn is mapped
C12_Witness ==
    /\ last.op = "translate"
    /\ last.args[1] = 0
    /\ last.ret # None
    /\ last.ret \div 1024 = 22
    /\ HwWalk(pte_array, root_ppn, 1) = None
    /\ HwWalk(pte_array, root_ppn, TopVpn) # None
    /\ Len(frames) = 5

\* C13 as stated: translate(v) is none for every VPN v that is not mapped
\* (some level of its walk, the leaf included, is not valid).
C13_TranslateNone ==
    \A v \in VpnArgs :
        HwWalk(pte_array, root_ppn, v) = None =>
            translate(pte_array, root_ppn, v) = None

\* the virtual pages that the byte range [ptr, ptr + len) touches
TouchedVpns(ptr, len) ==
    {v \in 0..TopVpn :
        len > 0 /\ v * PAGE_SIZE < ptr + len /\ ptr < (v + 1) * PAGE_SIZE}

AllMapped(ptr, len) ==
    \A v \in TouchedVpns(ptr, len) : HwWalk(pte_array, root_ppn, v) # None

RECURSIVE SliceLens(_)
SliceLens(v) ==
    IF v = <<>> THEN 0 ELSE (Head(v).hi - Head(v).lo) + SliceLens(Tail(v))

BufStep ==
    /\ last'.op = "translated_byte_buffer"
    /\ translated_byte_buffer_call(Arg(1), Arg(2))

\* C14: when every page of [ptr, ptr+len) is mapped, translated_byte_buffer
\* returns one slice per page touched, in increasing address order, each
\* inside the frame of its page, and the lengths sum to len (no slice when
\* len == 0).
C14_SliceCoverage ==
    [][ (BufStep /\ AllMapped(Arg(1), Arg(2))) =>
          LET ptr == Arg(1)
              len == Arg(2)
              v   == last'.bufs
              n   == Cardinality(TouchedVpns(ptr, len))
          IN  /\ last'.ret # None
              /\ pc' = pc
              /\ Len(v) = n
              /\ len = 0 => v = <<>>
              /\ SliceLens(v) = len
              /\ \A k \in 1..Len(v) :
                    LET vpn == (ptr \div PAGE_SIZE) + k - 1
                    IN  /\ vpn \in TouchedVpns(ptr, len)
                        /\ v[k].ppn
                              = HwWalk(pte_array, root_ppn, vpn) \div 1024
                        /\ 0 <= v[k].lo /\ v[k].lo < v[k].hi
                        /\ v[k].hi <= PAGE_SIZE
                        /\ v[k].lo = (IF k = 1 THEN ptr % PAGE_SIZE ELSE 0)
                        /\ v[k].hi = (IF k = n
                                      THEN ((ptr + len - 1) % PAGE_SIZE) + 1
                                      ELSE PAGE_SIZE)
      ]_vars

\* a buffer that starts 4 bytes before the end of page 0 and ends at the
\* end of page 1 has been split into two slices over the frames 22 and 20
C14_Witness ==
    /\ last.op = "translated_byte_buffer"
    /\ last.args = <<PAGE_SIZE - 4, PAGE_SIZE + 4>>
    /\ last.ret = 2
    /\ last.bufs[1] = [ppn |-> 22, lo |-> PAGE_SIZE - 4, hi |-> PAGE_SIZE]
    /\ last.bufs[2] = [ppn |-> 20, lo |-> 0, hi |-> PAGE_SIZE]

\* C15 as stated: translated_byte_buffer panics whenever a page of
\* [ptr, ptr+len) is not mapped, and every slice it returns lies in the
\* frame mapped at the slice's virtual page.
C15_UnmappedTraps ==
    [][ BufStep =>
          /\ ~AllMapped(Arg(1), Arg(2)) =>
                (last'.ret = None /\ pc' = "panic")
          /\ \A k \in 1..Len(last'.bufs) :
                LET vpn == (Arg(1) \div PAGE_SIZE) + k - 1
                IN  /\ HwWalk(pte_array, root_ppn, vpn) # None
                    /\ last'.bufs[k].ppn
                          = HwWalk(pte_array, root_ppn, vpn) \div 1024
      ]_vars

\* the byte at physical place <<ppn, off>>; a frame is zero-filled when it
\* is allocated
ByteAt(bytes, ppn, off) ==
    IF <<ppn, off>> \in DOMAIN bytes THEN bytes[<<ppn, off>>] ELSE 0

\* the byte a user load of virtual address a reads
UserByte(mem, bytes, root, a) ==
    ByteAt(bytes, HwWalk(mem, root, a \div PAGE_SIZE) \div 1024,
           a % PAGE_SIZE)

\* the usize whose little-endian bytes are b[from + 1] .. b[from + 8]
RECURSIVE UsizeOf(_, _, _)
UsizeOf(b, from, k) ==
    IF k = 0 THEN 0 ELSE b[from + 1] + 256 * UsizeOf(b, from + 1, k - 1)

\* byte j (0 = lowest) of a usize below 2^31
ByteOf(x, j) ==
    IF j >= 4 THEN 0
    ELSE (x \div (IF j = 0 THEN 1 ELSE IF j = 1 THEN 256
                  ELSE IF j = 2 THEN 65536 ELSE 16777216)) % 256

GetTimeStep == last'.op = "sys_get_time" /\ sys_get_time(Arg(1), Arg(2))

\* C16: after sys_get_time(ts) has written a TimeVal through
\* translated_large_type and copy_type_into_bufs to mapped pages, the 16
\* bytes read at the user's virtual addresses ts .. ts+15 are the bytes of
\* the TimeVal: sec = us / 1000000 and usec = us % 1000000.
C16_WriteReadBack ==
    [][ (GetTimeStep /\ AllMapped(Arg(1), SizeOfTimeVal)) =>
          LET ts   == Arg(1)
              us   == Arg(2)
              read == [k \in 1..SizeOfTimeVal |->
                         UserByte(pte_array', bytes_array', root_ppn',
                                  ts + k - 1)]
          IN  /\ last'.ret = 0
              /\ pte_array' = pte_array
              /\ \A k \in 1..8 :
                    /\ read[k] = ByteOf(us \div 1000000, k - 1)
                    /\ read[8 + k] = ByteOf(us % 1000000, k - 1)
              /\ UsizeOf(read, 0, 8) = us \div 1000000
              /\ UsizeOf(read, 8, 8) = us % 1000000
      ]_vars

\* sys_get_time has written a TimeVal that starts 4 bytes before the end
\* of page 0, with page 0 in frame 22 and page 1 in frame 20
C16_Witness ==
    /\ last.op = "sys_get_time"
    /\ last.ret = 0
    /\ last.args[1] = PAGE_SIZE - 4
    /\ HwWalk(pte_array, root_ppn, 0) # None
    /\ HwWalk(pte_array, root_ppn, 0) \div 1024 = 22
    /\ HwWalk(pte_array, root_ppn, 1) # None
    /\ HwWalk(pte_array, root_ppn, 1) \div 1024 = 20
    /\ ByteAt(bytes_array, 22, PAGE_SIZE - 4) = 2
    /\ ByteAt(bytes_array, 22, PAGE_SIZE - 3) = 1
    /\ ByteAt(bytes_array, 20, 4) = 3

(***************************************************************************)
(* The task lifecycle                                                      *)
(***************************************************************************)
QueuedTasks == {ready_queue[i] : i \in 1..Len(ready_queue)}

Lifecycle ==
    /\ Cardinality({t \in tasks : task_status[t] = "Running"}) <= 1
    /\ \A t \in tasks : task_status[t] = "Running" => current = t
    /\ \A t \in QueuedTasks :
          task_status[t] = "Ready" /\ Count(ready_queue, t) = 1
    /\ current \notin QueuedTasks
    /\ \A t \in tasks : task_status[t] = "Zombie" =>
          t \notin QueuedTasks /\ current # t

\* a Zombie stays a Zombie as long as its TCB is allocated
ZombieStays ==
    \A t \in tasks : task_status[t] = "Zombie" /\ t \in tasks' =>
        task_status'[t] = "Zombie"

\* C18: in every reachable state at most one task is Running and it is the
\* processor's current task; every task in the ready queue is Ready and is
\* there once; no task is both queued and current; a Zombie is neither
\* queued nor current and, until its TCB is deallocated, never becomes Ready
\* or Running again.
C18_Lifecycle == [](Lifecycle) /\ [][ZombieStays]_vars

\* a task runs while another is queued and a third is a Zombie that has
\* not been reaped
C18_Witness ==
    /\ pc = "user"
    /\ current \in tasks
    /\ task_status[current] = "Running"
    /\ ready_queue # <<>>
    /\ \E z \in tasks : task_status[z] = "Zombie"

(***************************************************************************)
(* The kernel's pages in a user address space                              *)
(***************************************************************************)
\* C19: after any sequence of sys_mmap and sys_munmap calls of a task, the
\* trampoline page and the task's trap-context page are still mapped in
\* the task's address space.
C19_KernelPagesMapped ==
    \A t \in tasks : task_status[t] # "Zombie" =>
        {TRAMPOLINE, TRAP_CONTEXT} \subseteq memory_set[t].pt

(***************************************************************************)
(* exec and spawn                                                          *)
(***************************************************************************)
LoadStep == last'.op \in {"sys_exec", "sys_spawn"} /\ pc = "user" /\ pc' = "user"

\* C20: sys_exec and sys_spawn return -1 for a name that is no application
\* and then create no task and leave the ready queue, the caller's children,
\* its address space and its pid as they were.  On success sys_spawn
\* returns the pid of a new task that is in the caller's children and in
\* the ready queue, and sys_exec returns 0 and the caller keeps its pid.
C20_ExecSpawn ==
    [][ LoadStep =>
          LET path == Arg(1)
              task == current
          IN  /\ current' = task
              /\ path \notin AppNames =>
                    /\ last'.ret = -1
                    /\ x10'[task] = -1
                    /\ tasks' = tasks
                    /\ ready_queue' = ready_queue
                    /\ children' = children
                    /\ parent' = parent
                    /\ memory_set' = memory_set
                    /\ user_mem' = user_mem
              /\ (path \in AppNames /\ last'.op = "sys_spawn") =>
                    LET new_pid == last'.ret
                    IN  /\ new_pid \in Pids \ tasks
                        /\ tasks' = tasks \cup {new_pid}
                        /\ x10'[task] = new_pid
                        /\ Count(children'[task], new_pid) = 1
                        /\ parent'[new_pid] = task
                        /\ ready_queue' = Append(ready_queue, new_pid)
                        /\ task_status'[new_pid] = "Ready"
                        /\ memory_set'[task] = memory_set[task]
              /\ (path \in AppNames /\ last'.op = "sys_exec") =>
                    /\ last'.ret = 0
                    /\ x10'[task] = 0
                    /\ tasks' = tasks
                    /\ ready_queue' = ready_queue
                    /\ children' = children
                    /\ parent' = parent
                    /\ memory_set'[task] = from_elf
      ]_vars

\* a task that has mapped a page and spawned a child has called sys_exec
\* with the name of no application: it still has the page and the child
C20_Witness ==
    /\ last.op = "sys_exec"
    /\ last.args[1] \notin AppNames
    /\ last.ret = -1
    /\ current \in tasks
    /\ memory_set[current] # from_elf
    /\ children[current] # <<>>
    /\ ready_queue # <<>>

(***************************************************************************)
(* The exclusive cells                                                     *)
(***************************************************************************)
\* a path replayed from the cells in held: no cell is borrowed while it is
\* borrowed, none is borrowed at __switch, none is left borrowed at the end
RECURSIVE CellsOk(_, _)
CellsOk(log, held) ==
    IF log = <<>> THEN held = {}
    ELSE LET e == Head(log)
         IN  CASE e.ev = "borrow" ->
                    /\ e.cell \notin held
                    /\ CellsOk(Tail(log), held \cup {e.cell})
               [] e.ev = "drop" ->
                    /\ e.cell \in held
                    /\ CellsOk(Tail(log), held \ {e.cell})
               [] e.ev = "switch" ->
                    /\ held = {}
                    /\ CellsOk(Tail(log), held)

\* C17: at every __switch, in run_tasks and in schedule, no exclusive cell
\* is borrowed (PROCESSOR, TASK_MANAGER, any task's inner), and no kernel
\* path borrows a cell that is borrowed.  A path starts where the previous
\* one has switched or returned, so with no cell held.
C17_DropBeforeSwitch == CellsOk(cell_log, {})

\* run_tasks has switched to a task chosen among two after the task that
\* ran before it gave up the CPU through schedule
C17_Witness ==
    /\ last.op = "fetch_task"
    /\ pc = "user"
    /\ nfetch >= 2
    /\ ready_queue # <<>>
    /\ Len(cell_log) >= 14
    /\ cell_log[Len(cell_log)].ev = "switch"

(***************************************************************************)
(* The frames of the page table                                            *)
(***************************************************************************)
\* C21: unmap(vpn) walks the page table without allocating: for every vpn,
\* mapped or not, it allocates no frame, adds nothing to the frames the
\* page table owns and installs no interior PTE; the only entry it may
\* change is a leaf that it clears.
C21_UnmapNoAlloc ==
    [][ last'.op = "unmap" =>
          /\ frames' = frames
          /\ \A f \in PtFrames, i \in Idx :
                pte_array'[f][i] # pte_array[f][i] =>
                    pte_array'[f][i] = pte_empty
      ]_vars

\* C22: map(vpn, ppn, flags) on a vpn whose leaf PTE is valid fails its
\* assertion and leaves that leaf as it was; unmap(vpn) on a vpn whose leaf
\* PTE is not valid fails its assertion.  A map or unmap that returns has
\* therefore found the leaf empty, respectively valid.
C22_AssertOnDoubleMap ==
    [][ /\ last'.op = "map" =>
              LET leaf == HwWalk(pte_array, root_ppn, Arg(1))
              IN  /\ leaf # None =>
                        /\ pc' = "panic"
                        /\ HwWalk(pte_array', root_ppn', Arg(1)) = leaf
                  /\ pc' # "panic" => leaf = None
        /\ last'.op = "unmap" =>
              LET leaf == HwWalk(pte_array, root_ppn, Arg(1))
              IN  /\ leaf = None => pc' = "panic"
                  /\ pc' # "panic" =>
                        /\ leaf # None
                        /\ HwWalk(pte_array', root_ppn', Arg(1)) = None
      ]_vars

\* a second map of page 0, to frame 22, has failed its assertion: page 0 is
\* still mapped to frame 20
C22_Witness ==
    /\ pc = "panic"
    /\ last.op = "map"
    /\ last.args[1] = 0
    /\ last.args[2] = 22
    /\ HwWalk(pte_array, root_ppn, 0) # None
    /\ HwWalk(pte_array, root_ppn, 0) \div 1024 = 20

\* the frames the page table owns
OwnedFrames == {frames[i] : i \in 1..Len(frames)}

\* the places <<frame, index>> of the valid interior PTEs: the valid
\* entries of the root (L2) and of the nodes the root's entries point to (L1)
ValidL2 == {<<root_ppn, i>> : i \in {j \in Idx : pte_array[root_ppn][j] % 2 = 1}}

L1Nodes == {pte_array[l[1]][l[2]] \div 1024 : l \in ValidL2}

ValidL1 ==
    {l \in (L1Nodes \cap PtFrames) \X Idx : pte_array[l[1]][l[2]] % 2 = 1}

ValidInterior == ValidL2 \cup ValidL1

InteriorOwned ==
    /\ L1Nodes \subseteq PtFrames
    /\ \A l \in ValidInterior :
          /\ FlagBits(pte_array[l[1]][l[2]]) = {PTE_V}
          /\ pte_array[l[1]][l[2]] \div 1024 \in OwnedFrames
    /\ OwnedFrames =
          {root_ppn} \cup {pte_array[l[1]][l[2]] \div 1024 : l \in ValidInterior}
    /\ Cardinality(OwnedFrames) = 1 + Cardinality(ValidInterior)
    /\ Len(frames) = Cardinality(OwnedFrames)

FramesKept == Len(frames') >= Len(frames) /\ SubSeq(frames', 1, Len(frames)) = frames

\* C23: in every state reachable by map and unmap on a page table made by
\* new(), every valid PTE at an interior level (L2 or L1) has the flags V
\* and nothing else and points to a frame the page table owns; the owned
\* frames are the root and one frame for each valid interior PTE; and the
\* owned frames never become fewer.
C23_InteriorFrames == [](InteriorOwned) /\ [][FramesKept]_vars

\* the three pages are mapped: the root, two L1 nodes and two L0 nodes
C23_Witness ==
    /\ \A v \in VpnArgs : HwWalk(pte_array, root_ppn, v) # None
    /\ Cardinality(ValidL2) = 2
    /\ Cardinality(ValidL1) = 2
    /\ Len(frames) = 5

(***************************************************************************)
(* Starvation                                                              *)
(***************************************************************************)
\* task a is ordered before every other task for good: its pass is more
\* than BIG_STRIDE/2 above the pass of every other task, the others are all
\* queued, and a is running or is the last entry of the ready queue
Monopoly(a) ==
    /\ a \in tasks
    /\ tasks # {a}
    /\ pc \in {"idle", "user"}
    /\ \A t \in tasks \ {a} :
          /\ task_stride[a] - task_stride[t] > BIG_STRIDE \div 2
          /\ t \in QueuedTasks
    /\ \/ current = a
       \/ ready_queue # <<>> /\ ready_queue[Len(ready_queue)] = a

\* a monopoly lasts: whatever the kernel does next, a still has it and no
\* other task has been selected
MonopolyLasts ==
    [][ \A a \in Pids :
          Monopoly(a) =>
              /\ Monopoly(a)'
              /\ \A t \in Pids \ {a} : selected'[t] = selected[t]
      ]_vars

\* a task queued with StarveWindow calls of fetch_task still to come is
\* selected again
EventuallySelected ==
    \A t \in Pids : \A n \in 0..1 :
        (t \in QueuedTasks /\ selected[t] = n
           /\ nfetch + StarveWindow <= MaxStarve)
        ~> (selected[t] > n)

\* C24: if the scheduler keeps calling fetch_task and every selected task
\* is re-added after it runs, every task in the ready queue is eventually
\* selected, also a task that is added with pass 0 when the passes of the
\* queued tasks are more than BIG_STRIDE/2 above its own.  No task ever
\* has a monopoly, then: under a monopoly (MonopolyLasts) the queued tasks
\* are never selected.
C24_NoStarvation == \A a \in tasks : ~Monopoly(a)

(***************************************************************************)
(* The window of the passes                                                *)
(***************************************************************************)
PassWindow ==
    \A a, b \in StrideTasks :
        abs_diff(task_stride[a], task_stride[b]) <= BIG_STRIDE \div 2

\* C25: for a fixed set of tasks that start with the same pass, have
\* priorities >= 2 (set_priority may change them) and are selected through
\* fetch_task only, the largest and the smallest pass differ by at most
\* BIG_STRIDE/2 in every reachable state; the wrap-around branch of the
\* Pass comparison is then never taken and fetch selects a task whose pass
\* is numerically smallest.
C25_BoundedWindow ==
    /\ \A t \in StrideTasks : task_priority[t] >= 2
    /\ PassWindow
    /\ \A i, j \in 1..Len(ready_queue) :
          lt(task_stride[ready_queue[i]], task_stride[ready_queue[j]])
              <=> task_stride[ready_queue[i]] <= task_stride[ready_queue[j]]
    /\ ready_queue # <<>> =>
          \A j \in 1..Len(ready_queue) :
              task_stride[fetch(ready_queue, task_stride)]
                  <= task_stride[ready_queue[j]]

\* after a change of priority and six calls of fetch_task two passes are
\* exactly BIG_STRIDE/2 apart
C25_Witness ==
    /\ nsetprio = 1
    /\ nfetch >= 6
    /\ \E a, b \in StrideTasks :
          task_stride[a] - task_stride[b] = BIG_STRIDE \div 2
    /\ \E t \in StrideTasks : task_priority[t] = HugePriority

====
